---- MODULE Spec2Model ----
(***************************************************************************)
(* Backend of the AIOps monitor: the node registry with heartbeat tracking *)
(* and the timeout sweep (backend/services/nodeManager.js) and the         *)
(* incident tracker (backend/services/incidentManager.js).                 *)
(*                                                                         *)
(* Node.js runs every handler to its next await without interruption, so   *)
(* the atomic steps are: the synchronous part of processAgentMetrics (up   *)
(* to the await of the AI engine call), the continuation after that call   *)
(* settles (resolved or failed), one run of the setInterval sweep, and the *)
(* passing of time.  Times are Date.now() values in milliseconds, counted  *)
(* from the start of the process.  The time stamps that the emitted events *)
(* and the incidents carry are written and never read: they are left out.  *)
(* So is the legacy poller (backend/socket.js), a second caller of         *)
(* updateState under the node id "local": the model follows the agents'    *)
(* route, POST /agent/metrics.                                             *)
(*                                                                         *)
(* A JavaScript object is a record; a property that may be missing is a    *)
(* field that may be missing from the record's DOMAIN, and a value that is *)
(* undefined/null as a whole is the record Absent.                         *)
(***************************************************************************)
EXTENDS Integers, Sequences, FiniteSets, TLC

(***************************************************************************)
(* Program constants                                                       *)
(***************************************************************************)
NODE_TIMEOUT_MS == 15000

HEARTBEAT_STALE_MS == 30000

METRIC_STALE_MS == 60000

\* period of the setInterval of initConnectionChecker
SWEEP_INTERVAL_MS == 5000

MAX_INCIDENTS == 50

DEFAULT_STATE == "NORMAL"

(***************************************************************************)
(* Bounds of the model                                                     *)
(***************************************************************************)
\* the clock stops here
MaxTime == 35000

\* clock readings per sweep interval
TicksPerSweep == 2

\* reports per node that reach processHeartbeat, in the timed specification
MaxReports == 2

\* largest heartbeat sequence number, in the heartbeat specification
MaxSeq == 3

\* reports per node that reach processHeartbeat, in the heartbeat specification
MaxBeats == 3

\* reports per node that reach processHeartbeat, in the fleet specification
MaxFleetReports == 3

TickMs == SWEEP_INTERVAL_MS \div TicksPerSweep

NodeIds == {"n1", "n2"}

Absent == [absent |-> TRUE]

\* in `accepted`: the report carried no heartbeat sequence
NoSequence == 0 - 1

IsAbsent(x) == "absent" \in DOMAIN x

Min(a, b) == IF a < b THEN a ELSE b

VARIABLES
    now,               \* Date.now()
    nextSweep,         \* time at which the setInterval callback is next due
    nodeStore,         \* nodeManager.js nodeStore: node_id -> record
    heartbeatTracker,  \* nodeManager.js heartbeatTracker: node_id -> tracker
    nodeStates,        \* incidentManager.js nodeStates: node_id -> currentState
    incidentTimeline,  \* incidentManager.js incidentTimeline
    pending,           \* processAgentMetrics calls suspended at the await
    emitted,           \* io.emit calls so far, per node_id, in order
    reportCount,       \* per node_id: reports that reached processHeartbeat
    accepted,          \* per node_id: the heartbeat sequences of the accepted reports
    last,              \* the step taken last, with its input and its outcome
    memory,            \* decision engine: per node_id, the MemoryWindow
    decision,          \* decision engine: per node_id, the latest Decision
    healing            \* remediation: per node_id, whether an action is in flight

\* the state of the decision engine and of the remediation it drives, which the
\* backend neither reads nor writes
engineVars == <<memory, decision, healing>>

vars == <<now, nextSweep, nodeStore, heartbeatTracker, nodeStates,
          incidentTimeline, pending, emitted, reportCount, accepted, last,
          memory, decision, healing>>

(***************************************************************************)
(* validateAgentPayload                                                    *)
(***************************************************************************)
\* typeof x.usage_percent === "number": the field holds [num |-> v]
IsNumber(part) == ~IsAbsent(part) /\ "num" \in DOMAIN part.usage_percent

OutOfRange(part) == part.usage_percent.num < 0 \/ part.usage_percent.num > 100

\* as validateAgentPayload, the staleness check made first
ValidateStalenessFirst(payload, t) ==
    LET metrics == payload.metrics IN
    IF ~IsAbsent(metrics) /\ "timestamp" \in DOMAIN metrics
       /\ t - metrics.timestamp > METRIC_STALE_MS
    THEN [valid |-> FALSE, error |-> "Metrics timestamp too old (stale data rejected)"]
    ELSE IF payload.node_id = ""
    THEN [valid |-> FALSE, error |-> "Missing or invalid node_id"]
    ELSE IF IsAbsent(metrics)
    THEN [valid |-> FALSE, error |-> "Missing or invalid metrics object"]
    ELSE IF ~IsNumber(metrics.cpu)
    THEN [valid |-> FALSE, error |-> "Invalid metrics.cpu structure"]
    ELSE IF ~IsNumber(metrics.memory)
    THEN [valid |-> FALSE, error |-> "Invalid metrics.memory structure"]
    ELSE IF OutOfRange(metrics.cpu)
    THEN [valid |-> FALSE, error |-> "CPU usage out of range (0-100)"]
    ELSE IF OutOfRange(metrics.memory)
    THEN [valid |-> FALSE, error |-> "Memory usage out of range (0-100)"]
    ELSE [valid |-> TRUE, error |-> ""]

\* as validateAgentPayload, without the range checks
ValidateWithoutRange(payload, t) ==
    LET metrics == payload.metrics IN
    IF payload.node_id = ""
    THEN [valid |-> FALSE, error |-> "Missing or invalid node_id"]
    ELSE IF IsAbsent(metrics)
    THEN [valid |-> FALSE, error |-> "Missing or invalid metrics object"]
    ELSE IF ~IsNumber(metrics.cpu)
    THEN [valid |-> FALSE, error |-> "Invalid metrics.cpu structure"]
    ELSE IF ~IsNumber(metrics.memory)
    THEN [valid |-> FALSE, error |-> "Invalid metrics.memory structure"]
    ELSE IF "timestamp" \in DOMAIN metrics /\ t - metrics.timestamp > METRIC_STALE_MS
    THEN [valid |-> FALSE, error |-> "Metrics timestamp too old (stale data rejected)"]
    ELSE [valid |-> TRUE, error |-> ""]

\* node_id is a string, "" when the payload has none; metrics is a record or
\* Absent; metrics.timestamp, when there is one, is a time
validateAgentPayload(payload, t) ==
    LET metrics == payload.metrics IN
    IF payload.node_id = ""
    THEN [valid |-> FALSE, error |-> "Missing or invalid node_id"]
    ELSE IF IsAbsent(metrics)
    THEN [valid |-> FALSE, error |-> "Missing or invalid metrics object"]
    ELSE IF ~IsNumber(metrics.cpu)
    THEN [valid |-> FALSE, error |-> "Invalid metrics.cpu structure"]
    ELSE IF ~IsNumber(metrics.memory)
    THEN [valid |-> FALSE, error |-> "Invalid metrics.memory structure"]
    ELSE IF OutOfRange(metrics.cpu)
    THEN [valid |-> FALSE, error |-> "CPU usage out of range (0-100)"]
    ELSE IF OutOfRange(metrics.memory)
    THEN [valid |-> FALSE, error |-> "Memory usage out of range (0-100)"]
    ELSE IF "timestamp" \in DOMAIN metrics /\ t - metrics.timestamp > METRIC_STALE_MS
    THEN [valid |-> FALSE, error |-> "Metrics timestamp too old (stale data rejected)"]
    ELSE [valid |-> TRUE, error |-> ""]

(***************************************************************************)
(* processHeartbeat                                                        *)
(***************************************************************************)
HasSequence(heartbeat) == ~IsAbsent(heartbeat) /\ "sequence" \in DOMAIN heartbeat

HasTimestamp(heartbeat) == ~IsAbsent(heartbeat) /\ "timestamp" \in DOMAIN heartbeat

\* as MissedAfter, the gap added whatever its sign
MissedAfterAnyGap(missedHeartbeats, expectedSeq, actualSeq) ==
    missedHeartbeats + (actualSeq - expectedSeq)

\* missedHeartbeats after a heartbeat with sequence actualSeq
MissedAfter(missedHeartbeats, expectedSeq, actualSeq) ==
    IF actualSeq > expectedSeq
    THEN missedHeartbeats + (actualSeq - expectedSeq)
    ELSE missedHeartbeats

\* the tracker after the sequence block
TrackSequence(tracker, heartbeat) ==
    IF HasSequence(heartbeat)
    THEN [tracker EXCEPT
            !.missedHeartbeats = MissedAfter(@, tracker.lastSeq + 1, heartbeat.sequence),
            !.lastSeq = heartbeat.sequence]
    ELSE tracker

IsStale(heartbeat, t) ==
    HasTimestamp(heartbeat) /\ t - heartbeat.timestamp > HEARTBEAT_STALE_MS

\* the result of the call, with the heartbeatTracker it leaves behind
processHeartbeat(trackers, nodeId, heartbeat, t) ==
    IF nodeId \notin DOMAIN trackers
    THEN [trackers |-> (nodeId :> [lastSeq |-> -1, lastTimestamp |-> t,
                                   missedHeartbeats |-> 0]) @@ trackers,
          valid |-> TRUE, isNewConnection |-> TRUE, missedBeats |-> 0]
    ELSE LET tracker == TrackSequence(trackers[nodeId], heartbeat) IN
         IF IsStale(heartbeat, t)
         THEN [trackers |-> [trackers EXCEPT ![nodeId] = tracker],
               valid |-> FALSE, isNewConnection |-> FALSE,
               missedBeats |-> tracker.missedHeartbeats]
         ELSE [trackers |-> [trackers EXCEPT ![nodeId] =
                                [tracker EXCEPT !.lastTimestamp = t]],
               valid |-> TRUE, isNewConnection |-> FALSE,
               missedBeats |-> tracker.missedHeartbeats]

(***************************************************************************)
(* incidentManager.js                                                      *)
(***************************************************************************)
getNodeState(states, nodeId) ==
    IF nodeId \in DOMAIN states THEN states[nodeId] ELSE DEFAULT_STATE

\* as getTimeline, the node filter left out
GetTimelineUnfiltered(timeline, nodeId) == timeline

\* nodeId is the node_id of the query of GET /incidents: Absent, or a string str
getTimeline(timeline, nodeId) ==
    IF IsAbsent(nodeId) \/ nodeId.str = "" \/ nodeId.str = "all"
    THEN timeline
    ELSE LET OfNode(incident) == incident.node_id = nodeId.str
         IN  SelectSeq(timeline, OfNode)

\* as PushIncident, nothing ever shifted out
PushWithoutEviction(timeline, incident) == Append(timeline, incident)

\* the timeline after push and the shift that keeps it within MAX_INCIDENTS
PushIncident(timeline, incident) ==
    LET pushed == Append(timeline, incident) IN
    IF Len(pushed) > MAX_INCIDENTS THEN Tail(pushed) ELSE pushed

\* as updateState, the stored level left as it was when an incident is created
UpdateStateKeepsLevel(states, timeline, nodeId, systemHealth) ==
    LET currentState == getNodeState(states, nodeId)
        newState == systemHealth.risk_level
        incident == [node_id |-> nodeId, from |-> currentState, to |-> newState]
    IN  IF newState # currentState
        THEN [nodeStates |-> (nodeId :> currentState) @@ states,
              incidentTimeline |-> PushIncident(timeline, incident),
              incident |-> incident]
        ELSE [nodeStates |-> (nodeId :> currentState) @@ states,
              incidentTimeline |-> timeline,
              incident |-> Absent]

\* as updateState, one level kept for the whole fleet
UpdateStateFleetWide(states, timeline, nodeId, systemHealth) ==
    LET currentState == getNodeState(states, nodeId)
        newState == systemHealth.risk_level
        incident == [node_id |-> nodeId, from |-> currentState, to |-> newState]
    IN  IF newState # currentState
        THEN [nodeStates |-> [n \in DOMAIN states \cup {nodeId} |-> newState],
              incidentTimeline |-> PushIncident(timeline, incident),
              incident |-> incident]
        ELSE [nodeStates |-> (nodeId :> currentState) @@ states,
              incidentTimeline |-> timeline,
              incident |-> Absent]

\* as updateState, every incident taken to begin at the default level
UpdateStateFromDefault(states, timeline, nodeId, systemHealth) ==
    LET currentState == getNodeState(states, nodeId)
        newState == systemHealth.risk_level
        incident == [node_id |-> nodeId, from |-> DEFAULT_STATE, to |-> newState]
    IN  IF newState # currentState
        THEN [nodeStates |-> (nodeId :> newState) @@ states,
              incidentTimeline |-> PushIncident(timeline, incident),
              incident |-> incident]
        ELSE [nodeStates |-> (nodeId :> currentState) @@ states,
              incidentTimeline |-> timeline,
              incident |-> Absent]

\* as updateState, an incident returned by every call
UpdateStateReturnsAlways(states, timeline, nodeId, systemHealth) ==
    LET currentState == getNodeState(states, nodeId)
        newState == systemHealth.risk_level
        incident == [node_id |-> nodeId, from |-> currentState, to |-> newState]
    IN  [nodeStates |-> (nodeId :> newState) @@ states,
         incidentTimeline |-> IF newState # currentState
                              THEN PushIncident(timeline, incident) ELSE timeline,
         incident |-> incident]

\* the returned incident (Absent for null) with the state the call leaves
updateState(states, timeline, nodeId, systemHealth) ==
    LET currentState == getNodeState(states, nodeId)
        newState == systemHealth.risk_level
        incident == [node_id |-> nodeId, from |-> currentState, to |-> newState]
    IN  IF newState # currentState
        THEN [nodeStates |-> (nodeId :> newState) @@ states,
              incidentTimeline |-> PushIncident(timeline, incident),
              incident |-> incident]
        ELSE [nodeStates |-> (nodeId :> currentState) @@ states,
              incidentTimeline |-> timeline,
              incident |-> Absent]

(***************************************************************************)
(* processAgentMetrics, up to the await                                    *)
(***************************************************************************)
AgentStatusOf(agent_state) ==
    IF IsAbsent(agent_state) THEN "ACTIVE"
    ELSE IF agent_state.health_state \in {"DEGRADED", "DEGRADING"} THEN "DEGRADED"
    ELSE IF agent_state.health_state = "RECOVERING" THEN "RECOVERING"
    ELSE "ACTIVE"

\* as IsNewOrReconnecting, a reconnection not seen
IsNewOnly(store, node_id) == node_id \notin DOMAIN store

\* as IsNewOrReconnecting, every report taken for a connection
AlwaysConnecting(store, node_id) == TRUE

IsNewOrReconnecting(store, node_id) ==
    node_id \notin DOMAIN store \/ store[node_id].status = "DISCONNECTED"

Emit(log, node_id, event) == [log EXCEPT ![node_id] = Append(@, event)]

\* what `last` records of a call: the payload, the error thrown ("" when the
\* call went on to the AI engine), and the locals of the call that say what it saw:
\* whether processHeartbeat found a tracker and its expectedSeq, existingNode and
\* isNewOrReconnecting (FALSE or 0 where the call ended before computing them)
ReportStep(payload, error, tracked, expectedSeq, existingNode, isNewOrReconnecting) ==
    [op |-> "processAgentMetrics", payload |-> payload,
     outcome |-> IF error = "" THEN "accepted" ELSE "rejected", error |-> error,
     tracked |-> tracked, expectedSeq |-> expectedSeq,
     existingNode |-> existingNode, isNewOrReconnecting |-> isNewOrReconnecting]

\* The record written to nodeStore leaves out hostname and heartbeat.lastReceived
\* (= lastSeen); reportId is not a field of the code's record: it labels the report
\* that wrote the record, as it labels the suspended call and the aiResult.
ProcessAgentMetrics(payload) ==
    LET node_id == payload.node_id
        validation == validateAgentPayload(payload, now)
    IN
    IF ~validation.valid
    THEN /\ last' = ReportStep(payload, validation.error, FALSE, 0, FALSE, FALSE)
         /\ UNCHANGED <<now, nextSweep, nodeStore, heartbeatTracker, nodeStates,
                        incidentTimeline, pending, emitted, reportCount, accepted>>
    ELSE
    LET heartbeatResult == processHeartbeat(heartbeatTracker, node_id,
                                            payload.heartbeat, now)
        tracked == node_id \in DOMAIN heartbeatTracker
        expectedSeq == IF tracked THEN heartbeatTracker[node_id].lastSeq + 1 ELSE 0
    IN
    /\ heartbeatTracker' = heartbeatResult.trackers
    /\ reportCount' = [reportCount EXCEPT ![node_id] = @ + 1]
    /\ IF ~heartbeatResult.valid
       THEN /\ last' = ReportStep(payload, "Stale heartbeat rejected",
                                tracked, expectedSeq, FALSE, FALSE)
            /\ UNCHANGED <<now, nextSweep, nodeStore, nodeStates,
                           incidentTimeline, pending, emitted, accepted>>
       ELSE
       LET existingNode == node_id \in DOMAIN nodeStore
           isNewOrReconnecting == IsNewOrReconnecting(nodeStore, node_id)
           agentStatus == AgentStatusOf(payload.agent_state)
           record == [metrics |-> payload.metrics,
                      reportId |-> reportCount'[node_id],
                      lastSeen |-> now,
                      status |-> "CONNECTED",
                      connection_state |-> "CONNECTED",
                      agent_status |-> agentStatus,
                      agent_state |-> payload.agent_state,
                      heartbeat |->
                        [sequence |-> IF HasSequence(payload.heartbeat)
                                      THEN payload.heartbeat.sequence ELSE 0,
                         missedBeats |-> heartbeatResult.missedBeats]]
       IN
       /\ nodeStore' = (node_id :> record) @@ nodeStore
       /\ emitted' = IF isNewOrReconnecting
                     THEN Emit(emitted, node_id,
                               [event |-> "node_status_update",
                                status |-> "CONNECTED",
                                connection_state |-> "CONNECTED",
                                agent_status |-> agentStatus,
                                isReconnection |-> existingNode])
                     ELSE emitted
       /\ pending' = pending \cup {[node_id |-> node_id,
                                    reportId |-> reportCount'[node_id],
                                    agentStatus |-> agentStatus,
                                    agent_state |-> payload.agent_state]}
       /\ accepted' = [accepted EXCEPT ![node_id] =
                            Append(@, IF HasSequence(payload.heartbeat)
                                      THEN payload.heartbeat.sequence
                                      ELSE NoSequence)]
       /\ last' = ReportStep(payload, "", tracked, expectedSeq,
                             existingNode, isNewOrReconnecting)
       /\ UNCHANGED <<now, nextSweep, nodeStates, incidentTimeline>>

(***************************************************************************)
(* processAgentMetrics, after the await                                    *)
(***************************************************************************)
\* sendMetricsToAIEngine resolved with aiResult
AIResolved(call, aiResult) ==
    LET node_id == call.node_id
        result == [system_health |-> aiResult.system_health,
                   reportId |-> call.reportId]
        update == updateState(nodeStates, incidentTimeline, node_id,
                              aiResult.system_health)
        system_metrics == [event |-> "system_metrics",
                           connection_state |-> "CONNECTED",
                           agent_status |-> call.agentStatus,
                           system_health |-> aiResult.system_health,
                           reportId |-> call.reportId]
        \* the incident object of the timeline is the one that is enriched
        enriched == [node_id |-> node_id,
                     from |-> update.incident.from,
                     to |-> update.incident.to,
                     connection_state |-> "CONNECTED",
                     agent_status |-> call.agentStatus]
    IN
    /\ call \in pending
    /\ pending' = pending \ {call}
    /\ nodeStore' = [nodeStore EXCEPT ![node_id] =
                        [f \in DOMAIN @ \cup {"aiResult"} |->
                            IF f = "aiResult" THEN result ELSE @[f]]]
    /\ nodeStates' = update.nodeStates
    /\ IF IsAbsent(update.incident)
       THEN /\ incidentTimeline' = update.incidentTimeline
            /\ emitted' = Emit(emitted, node_id, system_metrics)
       ELSE /\ incidentTimeline' =
                [update.incidentTimeline EXCEPT ![Len(update.incidentTimeline)] = enriched]
            /\ emitted' = Emit(Emit(emitted, node_id, system_metrics), node_id,
                               [event |-> "incident_event", incident |-> enriched])
    \* pushed: the incident as updateState pushed and returned it (Absent for null)
    /\ last' = [op |-> "resolved", node_id |-> node_id, reportId |-> call.reportId,
                incident |-> ~IsAbsent(update.incident), pushed |-> update.incident]
    /\ UNCHANGED <<now, nextSweep, heartbeatTracker, reportCount, accepted>>

\* as AIFailed, the node of a failed call taken for gone
AIFailedMarksOffline(call) ==
    /\ call \in pending
    /\ pending' = pending \ {call}
    /\ nodeStore' = [nodeStore EXCEPT ![call.node_id] =
                        [@ EXCEPT !.status = "DISCONNECTED",
                                  !.connection_state = "DISCONNECTED"]]
    /\ last' = [op |-> "failed", node_id |-> call.node_id, reportId |-> call.reportId,
                error |-> "AI engine request failed"]
    /\ UNCHANGED <<now, nextSweep, heartbeatTracker, nodeStates,
                   incidentTimeline, emitted, reportCount, accepted>>

\* sendMetricsToAIEngine threw: processAgentMetrics rejects with the error, which
\* the route answers with
AIFailed(call) ==
    /\ call \in pending
    /\ pending' = pending \ {call}
    /\ last' = [op |-> "failed", node_id |-> call.node_id, reportId |-> call.reportId,
                error |-> "AI engine request failed"]
    /\ UNCHANGED <<now, nextSweep, nodeStore, heartbeatTracker, nodeStates,
                   incidentTimeline, emitted, reportCount, accepted>>

(***************************************************************************)
(* initConnectionChecker: the sweep                                        *)
(***************************************************************************)
\* as IsNowConnected, the timeout itself still within the limit
IsNowConnectedInclusive(timeSinceLastSeen) == timeSinceLastSeen <= NODE_TIMEOUT_MS

\* as IsNowConnected, measured against the heartbeat staleness window
IsNowConnectedWithinStale(timeSinceLastSeen) == timeSinceLastSeen < HEARTBEAT_STALE_MS

IsNowConnected(timeSinceLastSeen) == timeSinceLastSeen < NODE_TIMEOUT_MS

\* as GoesOffline, the state the node was in not looked at
GoesOfflineAgain(data, t) == ~IsNowConnected(t - data.lastSeen)

\* the status change CONNECTED -> DISCONNECTED is detected
GoesOffline(data, t) ==
    data.status = "CONNECTED" /\ ~IsNowConnected(t - data.lastSeen)

\* as Sweep, the nodes that have timed out dropped from the registry
SweepDropsOffline ==
    /\ now = nextSweep
    /\ nextSweep' = nextSweep + SWEEP_INTERVAL_MS
    /\ nodeStore' = [n \in {m \in DOMAIN nodeStore : ~GoesOffline(nodeStore[m], now)}
                        |-> nodeStore[n]]
    /\ emitted' = [n \in NodeIds |->
                        IF n \in DOMAIN nodeStore /\ GoesOffline(nodeStore[n], now)
                        THEN Append(emitted[n],
                                    [event |-> "node_status_update",
                                     status |-> "DISCONNECTED",
                                     connection_state |-> "DISCONNECTED",
                                     agent_status |-> "OFFLINE"])
                        ELSE emitted[n]]
    /\ last' = [op |-> "sweep"]
    /\ UNCHANGED <<now, heartbeatTracker, nodeStates, incidentTimeline, pending,
                   reportCount, accepted>>
    /\ UNCHANGED engineVars

Sweep ==
    /\ now = nextSweep
    /\ nextSweep' = nextSweep + SWEEP_INTERVAL_MS
    /\ nodeStore' = [n \in DOMAIN nodeStore |->
                        IF GoesOffline(nodeStore[n], now)
                        THEN [nodeStore[n] EXCEPT !.status = "DISCONNECTED",
                                                  !.connection_state = "DISCONNECTED"]
                        ELSE nodeStore[n]]
    /\ emitted' = [n \in NodeIds |->
                        IF n \in DOMAIN nodeStore /\ GoesOffline(nodeStore[n], now)
                        THEN Append(emitted[n],
                                    [event |-> "node_status_update",
                                     status |-> "DISCONNECTED",
                                     connection_state |-> "DISCONNECTED",
                                     agent_status |-> "OFFLINE"])
                        ELSE emitted[n]]
    /\ last' = [op |-> "sweep"]
    /\ UNCHANGED <<now, heartbeatTracker, nodeStates, incidentTimeline, pending,
                   reportCount, accepted>>
    /\ UNCHANGED engineVars

\* time passes, but not beyond the moment the sweep is due
Tick ==
    /\ now < nextSweep
    /\ now < MaxTime
    /\ now' = Min(now + TickMs, nextSweep)
    /\ last' = [op |-> "tick"]
    /\ UNCHANGED <<nextSweep, nodeStore, heartbeatTracker, nodeStates,
                   incidentTimeline, pending, emitted, reportCount, accepted>>
    /\ UNCHANGED engineVars

(***************************************************************************)
(* Reads                                                                   *)
(***************************************************************************)
getActiveNodes(store, t) ==
    { LET data == store[n]
          isConnected == (t - data.lastSeen) < NODE_TIMEOUT_MS
      IN  [node_id |-> n,
           lastSeen |-> data.lastSeen,
           timeSinceLastSeen |-> t - data.lastSeen,
           status |-> IF isConnected THEN "CONNECTED" ELSE "DISCONNECTED",
           connection_state |-> IF isConnected THEN "CONNECTED" ELSE "DISCONNECTED",
           agent_status |-> IF isConnected THEN data.agent_status ELSE "OFFLINE",
           agent_state |-> data.agent_state,
           health_status |-> IF "aiResult" \in DOMAIN data
                             THEN data.aiResult.system_health.risk_level
                             ELSE "UNKNOWN"]
      : n \in DOMAIN store }

getNodeData(store, nodeId, t) ==
    IF nodeId \notin DOMAIN store THEN Absent
    ELSE LET data == store[nodeId]
             isConnected == (t - data.lastSeen) < NODE_TIMEOUT_MS
         IN  [f \in DOMAIN data |->
                IF f = "connection_state"
                THEN IF isConnected THEN "CONNECTED" ELSE "DISCONNECTED"
                ELSE IF f = "agent_status"
                THEN IF isConnected THEN data.agent_status ELSE "OFFLINE"
                ELSE data[f]]

(***************************************************************************)
(* Inputs                                                                  *)
(***************************************************************************)
GoodMetrics == [cpu |-> [usage_percent |-> [num |-> 50]],
                memory |-> [usage_percent |-> [num |-> 50]]]

\* heartbeats with a sequence number of seqs, sent ages ms before t
Heartbeats(seqs, ages, t) ==
    {Absent} \cup {[sequence |-> s] : s \in seqs}
             \cup {[sequence |-> s, timestamp |-> t - a] : s \in seqs, a \in ages}

AgentStates == {Absent, [health_state |-> "DEGRADED"]}

Payloads(nodes, metricss, heartbeats, agentStates) ==
    [node_id : nodes, metrics : metricss, heartbeat : heartbeats,
     agent_state : agentStates]

AIResults(risks) == {[system_health |-> [risk_level |-> r]] : r \in risks}

\* metrics.cpu / metrics.memory: missing, usage_percent not a number, or one of
\* the numbers
Parts(numbers) ==
    {Absent, [usage_percent |-> [str |-> "high"]]}
    \cup {[usage_percent |-> [num |-> v]] : v \in numbers}

\* metrics objects with and without a timestamp, sent ages ms before t
MetricsWith(cpus, memories, ages, t) ==
    [cpu : cpus, memory : memories]
    \cup {[cpu |-> c, memory |-> m, timestamp |-> t - a] :
             c \in cpus, m \in memories, a \in ages}

(***************************************************************************)
(* The timed specification: reports, AI engine calls, sweeps and the clock. *)
(* It follows one node, n1, whose reports are fresh or stale, with or       *)
(* without an agent_state, any number of them in flight at once.            *)
(***************************************************************************)
Init ==
    /\ now = 0
    /\ nextSweep = SWEEP_INTERVAL_MS
    /\ nodeStore = <<>>
    /\ heartbeatTracker = <<>>
    /\ nodeStates = <<>>
    /\ incidentTimeline = <<>>
    /\ pending = {}
    /\ emitted = [n \in NodeIds |-> <<>>]
    /\ reportCount = [n \in NodeIds |-> 0]
    /\ accepted = [n \in NodeIds |-> <<>>]
    /\ last = [op |-> "init"]
    /\ memory = [n \in NodeIds |-> <<>>]
    /\ decision = [n \in NodeIds |-> Absent]
    /\ healing = [n \in NodeIds |-> FALSE]

LivePayloads ==
    Payloads({"n1"}, {GoodMetrics},
             {[timestamp |-> now], [timestamp |-> now - HEARTBEAT_STALE_MS - TickMs]},
             AgentStates)

Report ==
    \E payload \in LivePayloads :
        /\ reportCount[payload.node_id] < MaxReports
        /\ ProcessAgentMetrics(payload)
        /\ UNCHANGED engineVars

Resolve ==
    \E call \in pending, aiResult \in AIResults({"CRITICAL"}) :
        AIResolved(call, aiResult) /\ UNCHANGED engineVars

Fail == \E call \in pending : AIFailed(call) /\ UNCHANGED engineVars

Next == Report \/ Resolve \/ Fail \/ Sweep \/ Tick

Spec == Init /\ [][Next]_vars

(***************************************************************************)
(* The heartbeat specification: the synchronous part of processAgentMetrics *)
(* under heartbeats with any sequence numbers, fresh or stale.  The clock  *)
(* stands still and the AI engine calls stay in flight: their continuation *)
(* reads and writes neither heartbeatTracker nor lastSeen nor status.      *)
(***************************************************************************)
\* n1 sends every heartbeat; n2 sends traffic in between
HeartbeatPayloads ==
    Payloads({"n1"}, {GoodMetrics},
             Heartbeats(0..MaxSeq, {HEARTBEAT_STALE_MS + 1}, now),
             {Absent})
    \cup Payloads({"n2"}, {GoodMetrics},
                  {[sequence |-> 0], [sequence |-> MaxSeq]}, {Absent})

Beat ==
    \E payload \in HeartbeatPayloads :
        /\ reportCount[payload.node_id] < MaxBeats
        /\ ProcessAgentMetrics(payload)
        /\ UNCHANGED engineVars

HeartbeatNext == Beat

HeartbeatSpec == Init /\ [][HeartbeatNext]_vars

(***************************************************************************)
(* The validation specification: node n1 and a sender without node_id send *)
(* payloads with every combination of well-formed and malformed parts; the *)
(* accepted ones go on to the AI engine.  The clock stands still.          *)
(***************************************************************************)
\* utilisations below, at either end of, and above the range; timestamps exactly
\* at the staleness bound and 1 ms beyond it
ValidationPayloads ==
    Payloads({"", "n1"},
             {Absent} \cup MetricsWith(Parts({0 - 1, 0, 101}), Parts({0 - 1, 100, 101}),
                                       {METRIC_STALE_MS, METRIC_STALE_MS + 1}, now),
             {Absent}, {Absent})

Submit ==
    \E payload \in ValidationPayloads :
        /\ validateAgentPayload(payload, now).valid
              => reportCount[payload.node_id] < MaxReports
        /\ ProcessAgentMetrics(payload)
        /\ UNCHANGED engineVars

ValidationNext == Submit \/ Resolve \/ Fail

ValidationSpec == Init /\ [][ValidationNext]_vars

(***************************************************************************)
(* The fleet specification: two nodes report side by side, their AI engine *)
(* calls in flight at once and settling in any order with any risk level.  *)
(* Node n1 sends reports that are accepted, rejected by validation or      *)
(* rejected as stale; node n2 sends one report, at any moment.  The clock  *)
(* stands still.                                                           *)
(***************************************************************************)
RiskLevels == {"NORMAL", "WARNING", "CRITICAL"}

FleetPayloads ==
    Payloads({"n1"}, {Absent, GoodMetrics},
             {Absent, [timestamp |-> now - HEARTBEAT_STALE_MS - 1]}, {Absent})
    \cup Payloads({"n2"}, {GoodMetrics}, {Absent}, {Absent})

FleetReport ==
    \E payload \in FleetPayloads :
        /\ validateAgentPayload(payload, now).valid
              => reportCount[payload.node_id] <
                    (IF payload.node_id = "n1" THEN MaxFleetReports ELSE 1)
        /\ ProcessAgentMetrics(payload)
        /\ UNCHANGED engineVars

FleetResolve ==
    \E call \in pending, aiResult \in AIResults(RiskLevels) :
        AIResolved(call, aiResult) /\ UNCHANGED engineVars

FleetNext == FleetReport \/ FleetResolve \/ Fail

FleetSpec == Init /\ [][FleetNext]_vars

(***************************************************************************)
(* The decision engine.  It runs in the AI engine, whose code is not part  *)
(* of the sources at hand (the README names it: decision_agent.py, a       *)
(* 20-point memory window and the five decisions): it is modelled from the *)
(* specification, sections 3 and 4.3-4.4.  The engine handles the POST of  *)
(* sendMetricsToAIEngine: it appends the observation to the node's window  *)
(* and selects one decision.  The trend classification, the projection of  *)
(* the time to critical and the eligibility of a remediation depend on     *)
(* thresholds and collaborators the specification leaves open: they are    *)
(* inputs of the evaluation.  confidence, trendVelocity, the contributing  *)
(* factors and the reasoning chain of a Decision are left out.             *)
(***************************************************************************)
WINDOW_CAPACITY == 20

\* the configured minimum sample count
MinSamples == 3

\* the configured persistence floor
PersistenceFloor == 2

DecisionKinds == {"NO_ACTION", "ESCALATE", "DE_ESCALATE", "PREDICT_FAILURE", "AUTO_HEAL"}

HealthTrends == {"IMPROVING", "STABLE", "DEGRADING", "CRITICAL_DECLINE"}

RiskRank(risk_level) ==
    IF risk_level = "NORMAL" THEN 0 ELSE IF risk_level = "WARNING" THEN 1 ELSE 2

\* as PushObservation, the window left to grow
PushWithoutLimit(window, observation) == Append(window, observation)

\* the window after the append, the oldest observation evicted beyond capacity
PushObservation(window, observation) ==
    LET pushed == Append(window, observation) IN
    IF Len(pushed) > WINDOW_CAPACITY THEN Tail(pushed) ELSE pushed

RECURSIVE Persistence(_)
\* the number of consecutive most recent observations that share the risk level
\* of the current one
Persistence(window) ==
    IF Len(window) <= 1 THEN Len(window)
    ELSE IF window[Len(window) - 1].risk_level # window[Len(window)].risk_level THEN 1
    ELSE 1 + Persistence(SubSeq(window, 1, Len(window) - 1))

\* as HasEnoughSamples, any fill counting as enough
AlwaysEnoughSamples(window) == Len(window) >= 0

\* window fill has reached the minimum sample count
HasEnoughSamples(window) == Len(window) >= MinSamples

\* as SelectDecision, the rung of PREDICT_FAILURE tried before that of AUTO_HEAL
SelectPredictFirst(window, signals, inFlight) ==
    LET current == window[Len(window)].risk_level
        hasPrevious == Len(window) > 1
        previous == window[Len(window) - 1].risk_level
        persistence == Persistence(window)
        enough == HasEnoughSamples(window)
    IN  IF /\ enough
           /\ \/ signals.healthTrend = "CRITICAL_DECLINE"
              \/ signals.healthTrend = "DEGRADING" /\ persistence > PersistenceFloor
           /\ signals.withinHorizon
        THEN "PREDICT_FAILURE"
        ELSE IF enough /\ current = "CRITICAL" /\ signals.eligible /\ ~inFlight
        THEN "AUTO_HEAL"
        ELSE IF \/ hasPrevious /\ RiskRank(current) > RiskRank(previous)
                \/ current \in {"WARNING", "CRITICAL"} /\ persistence > PersistenceFloor
        THEN "ESCALATE"
        ELSE IF /\ enough
                /\ hasPrevious /\ RiskRank(current) < RiskRank(previous)
                /\ signals.healthTrend \in {"IMPROVING", "STABLE"}
        THEN "DE_ESCALATE"
        ELSE "NO_ACTION"

\* the priority ladder, first match wins, over the window that holds the current
\* observation; below the minimum sample count no trend is guessed and neither
\* AUTO_HEAL nor PREDICT_FAILURE is selected
SelectDecision(window, signals, inFlight) ==
    LET current == window[Len(window)].risk_level
        hasPrevious == Len(window) > 1
        previous == window[Len(window) - 1].risk_level
        persistence == Persistence(window)
        enough == HasEnoughSamples(window)
    IN  IF enough /\ current = "CRITICAL" /\ signals.eligible /\ ~inFlight
        THEN "AUTO_HEAL"
        ELSE IF /\ enough
                /\ \/ signals.healthTrend = "CRITICAL_DECLINE"
                   \/ signals.healthTrend = "DEGRADING" /\ persistence > PersistenceFloor
                /\ signals.withinHorizon
        THEN "PREDICT_FAILURE"
        ELSE IF \/ hasPrevious /\ RiskRank(current) > RiskRank(previous)
                \/ current \in {"WARNING", "CRITICAL"} /\ persistence > PersistenceFloor
        THEN "ESCALATE"
        ELSE IF /\ enough
                /\ hasPrevious /\ RiskRank(current) < RiskRank(previous)
                /\ signals.healthTrend \in {"IMPROVING", "STABLE"}
        THEN "DE_ESCALATE"
        ELSE "NO_ACTION"

\* the observation of risk level risk_level, stamped with its place in the order
\* of arrival at the engine
ObservationAfter(window, risk_level) ==
    [risk_level |-> risk_level,
     at |-> IF window = <<>> THEN 1 ELSE window[Len(window)].at + 1]

\* the Decision for the window that holds the current observation, with the
\* inputs it was selected from
DecisionFor(window, signals, inFlight) ==
    [kind |-> SelectDecision(window, signals, inFlight),
     insufficient_data |-> ~HasEnoughSamples(window),
     persistence |-> Persistence(window),
     observation |-> window[Len(window)],
     signals |-> signals,
     inFlight |-> inFlight]

\* one evaluation cycle for node n: the engine's variables after it; an
\* AUTO_HEAL notifies the remediation, which is in flight from then on
Evaluate(n, risk_level, signals) ==
    LET window == PushObservation(memory[n], ObservationAfter(memory[n], risk_level))
        selected == DecisionFor(window, signals, healing[n])
    IN  /\ memory' = [memory EXCEPT ![n] = window]
        /\ decision' = [decision EXCEPT ![n] = selected]
        /\ healing' = [healing EXCEPT ![n] = @ \/ selected.kind = "AUTO_HEAL"]

\* the remediation of node n completes
RemediationDone ==
    \E n \in NodeIds :
        /\ healing[n]
        /\ healing' = [healing EXCEPT ![n] = FALSE]
        /\ last' = [op |-> "remediated", node_id |-> n]
        /\ UNCHANGED <<now, nextSweep, nodeStore, heartbeatTracker, nodeStates,
                       incidentTimeline, pending, emitted, reportCount, accepted,
                       memory, decision>>

(***************************************************************************)
(* The timeline specification: the server has been up for a while.  Node   *)
(* n1 has sent SnapshotReports reports, each settled before the next one   *)
(* came, the AI engine answering CRITICAL and NORMAL in turn, so that every *)
(* report left an incident and the timeline is one short of MAX_INCIDENTS. *)
(* From there n1 goes on reporting, with any risk level and its AI engine  *)
(* calls in flight at once.  The clock stands still.                       *)
(***************************************************************************)
SnapshotReports == MAX_INCIDENTS - 1

\* the risk level that report i of the snapshot was answered with
SnapshotRisk(i) == IF i % 2 = 1 THEN "CRITICAL" ELSE "NORMAL"

SnapshotIncident(i) ==
    [node_id |-> "n1", from |-> SnapshotRisk(i - 1), to |-> SnapshotRisk(i),
     connection_state |-> "CONNECTED", agent_status |-> "ACTIVE"]

\* what had been emitted for n1: its connection, then system_metrics and
\* incident_event for each report
SnapshotEmitted(k) ==
    [j \in 1..(2 * k + 1) |->
        IF j = 1
        THEN [event |-> "node_status_update", status |-> "CONNECTED",
              connection_state |-> "CONNECTED", agent_status |-> "ACTIVE",
              isReconnection |-> FALSE]
        ELSE IF j % 2 = 0
        THEN [event |-> "system_metrics", connection_state |-> "CONNECTED",
              agent_status |-> "ACTIVE",
              system_health |-> [risk_level |-> SnapshotRisk(j \div 2)],
              reportId |-> j \div 2]
        ELSE [event |-> "incident_event", incident |-> SnapshotIncident(j \div 2)]]

SnapshotRecord(k) ==
    [metrics |-> GoodMetrics, reportId |-> k, lastSeen |-> 0,
     status |-> "CONNECTED", connection_state |-> "CONNECTED",
     agent_status |-> "ACTIVE", agent_state |-> Absent,
     heartbeat |-> [sequence |-> 0, missedBeats |-> 0],
     aiResult |-> [system_health |-> [risk_level |-> SnapshotRisk(k)],
                   reportId |-> k]]

\* the window after the first k observations of the snapshot
RECURSIVE SnapshotWindow(_)
SnapshotWindow(k) ==
    IF k = 0 THEN <<>>
    ELSE PushObservation(SnapshotWindow(k - 1),
                         [risk_level |-> SnapshotRisk(k), at |-> k])

\* the signals that the evaluations of the snapshot had
QuietSignals == [healthTrend |-> "STABLE", withinHorizon |-> FALSE, eligible |-> FALSE]

\* the state after k reports of n1, at time t with the next sweep due at time due
SnapshotAt(k, t, due) ==
    /\ now = t
    /\ nextSweep = due
    /\ memory = ("n1" :> SnapshotWindow(k)) @@ [n \in NodeIds |-> <<>>]
    /\ decision = ("n1" :> DecisionFor(SnapshotWindow(k), QuietSignals, FALSE))
                      @@ [n \in NodeIds |-> Absent]
    /\ healing = [n \in NodeIds |-> FALSE]
    /\ nodeStore = ("n1" :> SnapshotRecord(k))
    /\ heartbeatTracker = ("n1" :> [lastSeq |-> -1, lastTimestamp |-> 0,
                                    missedHeartbeats |-> 0])
    /\ nodeStates = ("n1" :> SnapshotRisk(k))
    /\ incidentTimeline = [i \in 1..k |-> SnapshotIncident(i)]
    /\ pending = {}
    /\ emitted = ("n1" :> SnapshotEmitted(k)) @@ [n \in NodeIds |-> <<>>]
    /\ reportCount = ("n1" :> k) @@ [n \in NodeIds |-> 0]
    /\ accepted = ("n1" :> [i \in 1..k |-> NoSequence]) @@ [n \in NodeIds |-> <<>>]

\* the state right after k reports of n1
Snapshot(k) == SnapshotAt(k, 0, SWEEP_INTERVAL_MS)

TimelineInit == Snapshot(SnapshotReports) /\ last = [op |-> "init"]

TimelinePayloads == Payloads({"n1"}, {Absent, GoodMetrics}, {Absent}, AgentStates)

TimelineReport ==
    \E payload \in TimelinePayloads :
        /\ validateAgentPayload(payload, now).valid
              => reportCount[payload.node_id] < SnapshotReports + MaxReports
        /\ ProcessAgentMetrics(payload)
        /\ UNCHANGED engineVars

TimelineNext == TimelineReport \/ FleetResolve \/ Fail

TimelineSpec == TimelineInit /\ [][TimelineNext]_vars

(***************************************************************************)
(* The incidents specification: the timeline specification with a second   *)
(* node, n2, that sends one report, and with the reads of GET /incidents.  *)
(***************************************************************************)
IncidentsPayloads == Payloads(NodeIds, {GoodMetrics}, {Absent}, {Absent})

IncidentsReport ==
    \E payload \in IncidentsPayloads :
        /\ reportCount[payload.node_id] <
              (IF payload.node_id = "n1" THEN SnapshotReports + MaxReports ELSE 1)
        /\ ProcessAgentMetrics(payload)
        /\ UNCHANGED engineVars

\* req.query.node_id
TimelineQueries == {Absent} \cup {[str |-> id] : id \in {"", "all"} \cup NodeIds}

\* GET /incidents
GetIncidents ==
    \E nodeId \in TimelineQueries :
        /\ last' = [op |-> "getTimeline", nodeId |-> nodeId,
                    timeline |-> getTimeline(incidentTimeline, nodeId)]
        /\ UNCHANGED <<now, nextSweep, nodeStore, heartbeatTracker, nodeStates,
                       incidentTimeline, pending, emitted, reportCount, accepted,
                       memory, decision, healing>>

IncidentsNext == IncidentsReport \/ FleetResolve \/ GetIncidents

IncidentsSpec == TimelineInit /\ [][IncidentsNext]_vars

(***************************************************************************)
(* The decision specification: the reports of node n1 with the decision    *)
(* engine behind sendMetricsToAIEngine.  It begins with a fresh server, or *)
(* with a server that n1 has sent some reports to (one short of the        *)
(* minimum sample count, or one short of the window capacity) and has then *)
(* left alone for NODE_TIMEOUT_MS, the sweep being due.  The clock stands  *)
(* still.                                                                  *)
(***************************************************************************)
DecisionSnapshots == {MinSamples - 1, WINDOW_CAPACITY - 1}

DecisionInit ==
    /\ \/ Init
       \/ \E k \in DecisionSnapshots :
             SnapshotAt(k, NODE_TIMEOUT_MS, NODE_TIMEOUT_MS)
    /\ last = [op |-> "init"]

DecisionPayloads == Payloads({"n1"}, {GoodMetrics}, {Absent}, {Absent})

\* the number of reports that n1 had sent at the beginning
DecisionBase ==
    IF now = 0 THEN 0
    ELSE CHOOSE k \in DecisionSnapshots : reportCount["n1"] \in k..(k + MaxReports)

DecisionReport ==
    \E payload \in DecisionPayloads :
        /\ reportCount[payload.node_id] < DecisionBase + MaxReports
        /\ ProcessAgentMetrics(payload)
        /\ UNCHANGED engineVars

\* the signals of an evaluation with an eligible safe action
EligibleSignals == [healthTrend |-> "STABLE", withinHorizon |-> FALSE, eligible |-> TRUE]

\* the signals of an evaluation that projects a failure within the horizon
FailureSignals(healthTrend, eligible) ==
    [healthTrend |-> healthTrend, withinHorizon |-> TRUE, eligible |-> eligible]

\* the signals of an evaluation: a quiet one, an eligible safe action, a
\* failure projected within the horizon
DecisionSignals ==
    {QuietSignals, EligibleSignals, FailureSignals("DEGRADING", FALSE),
     FailureSignals("CRITICAL_DECLINE", FALSE), FailureSignals("CRITICAL_DECLINE", TRUE)}

\* the engine evaluates the report and its answer reaches the backend
EngineResolve ==
    \E call \in pending, aiResult \in AIResults(RiskLevels), signals \in DecisionSignals :
        /\ Evaluate(call.node_id, aiResult.system_health.risk_level, signals)
        /\ AIResolved(call, aiResult)

\* the engine evaluates the report and its answer comes too late for the
\* request timeout of sendMetricsToAIEngine
EngineTimeout ==
    \E call \in pending, risk_level \in RiskLevels, signals \in DecisionSignals :
        /\ Evaluate(call.node_id, risk_level, signals)
        /\ AIFailed(call)

DecisionNext ==
    DecisionReport \/ EngineResolve \/ EngineTimeout \/ RemediationDone \/ Sweep

DecisionSpec == DecisionInit /\ [][DecisionNext]_vars

(***************************************************************************)
(* Heartbeat accounting (HeartbeatSpec)                                    *)
(***************************************************************************)
IsReport(step) == step.op = "processAgentMetrics"

\* the step is a report of node n that reached the sequence block of
\* processHeartbeat with a sequence number
IsSequenced(step, n) ==
    /\ IsReport(step)
    /\ step.payload.node_id = n
    /\ step.error \in {"", "Stale heartbeat rejected"}
    /\ step.tracked
    /\ HasSequence(step.payload.heartbeat)

\* ... with a sequence number <= the last recorded one
IsRedelivery(step, n) ==
    IsSequenced(step, n) /\ step.payload.heartbeat.sequence < step.expectedSeq

InOrderFromZero(seqs) ==
    /\ Len(seqs) > 0
    /\ seqs[1] = 0
    /\ \A i \in 1..(Len(seqs) - 1) : seqs[i] < seqs[i + 1]

RECURSIVE Skipped(_)
\* the sum over consecutive reports of next - previous - 1
Skipped(seqs) ==
    IF Len(seqs) < 2 THEN 0
    ELSE Skipped(SubSeq(seqs, 1, Len(seqs) - 1))
         + (seqs[Len(seqs)] - seqs[Len(seqs) - 1] - 1)

\* C1: a node all of whose reports were accepted, with strictly increasing
\* heartbeat sequence numbers starting at 0, has missedHeartbeats = the number of
\* sequence numbers skipped (0,1,2,5 gives 2)
C1_MissedCountIsSkipped ==
    \A n \in DOMAIN heartbeatTracker :
        (reportCount[n] = Len(accepted[n]) /\ InOrderFromZero(accepted[n]))
            => heartbeatTracker[n].missedHeartbeats = Skipped(accepted[n])

\* C2: in no step does a node's missedHeartbeats decrease, and a report whose
\* sequence number is <= the last recorded sequence leaves it unchanged
C2_MissedCountNeverDecreases ==
    [][\A n \in DOMAIN heartbeatTracker :
          /\ heartbeatTracker'[n].missedHeartbeats >= heartbeatTracker[n].missedHeartbeats
          /\ IsRedelivery(last', n)
                => heartbeatTracker'[n].missedHeartbeats
                     = heartbeatTracker[n].missedHeartbeats]_vars

\* a report with a sequence number below the last recorded one has been processed
\* for a node that has missed beats on its account
C2_Witness ==
    /\ IsRedelivery(last, "n1")
    /\ last.payload.heartbeat.sequence < last.expectedSeq - 1
    /\ heartbeatTracker["n1"].missedHeartbeats > 0

\* C3: accepting once more a report that was accepted before, its sequence
\* number <= the last recorded one (a re-delivery), leaves lastSeq and
\* missedHeartbeats of the node's tracker as they were
C3_RedeliveryKeepsTracker ==
    [][\A n \in DOMAIN heartbeatTracker :
          (/\ IsRedelivery(last', n)
           /\ last'.outcome = "accepted"
           /\ \E i \in 1..Len(accepted[n]) :
                 accepted[n][i] = last'.payload.heartbeat.sequence)
            => /\ heartbeatTracker'[n].lastSeq = heartbeatTracker[n].lastSeq
               /\ heartbeatTracker'[n].missedHeartbeats
                     = heartbeatTracker[n].missedHeartbeats]_vars

(***************************************************************************)
(* Connection state (Spec)                                                 *)
(***************************************************************************)
IsStatusEvent(e) == e.event = "node_status_update"

StatusEvents(n) == SelectSeq(emitted[n], IsStatusEvent)

\* the step appends exactly the events `events` to what was emitted for n
Emits(n, events) == emitted'[n] = emitted[n] \o events

IsSweep(step) == step.op = "sweep"

IsAcceptedReport(step, n) ==
    IsReport(step) /\ step.payload.node_id = n /\ step.outcome = "accepted"

\* C4: the sweep that moves a node CONNECTED -> DISCONNECTED emits exactly one
\* DISCONNECTED event for it, nothing but a sweep moves it there, a sweep that
\* finds it DISCONNECTED leaves it alone and emits nothing, and only an accepted
\* report of the node ends the DISCONNECTED state
C4_OneDisconnectPerTimeout ==
    [][\A n \in DOMAIN nodeStore :
          /\ (nodeStore[n].status = "CONNECTED" /\ nodeStore'[n].status = "DISCONNECTED")
                => /\ IsSweep(last')
                   /\ Len(emitted'[n]) = Len(emitted[n]) + 1
                   /\ Emits(n, <<emitted'[n][Len(emitted'[n])]>>)
                   /\ IsStatusEvent(emitted'[n][Len(emitted'[n])])
                   /\ emitted'[n][Len(emitted'[n])].status = "DISCONNECTED"
          /\ (nodeStore[n].status = "DISCONNECTED" /\ IsSweep(last'))
                => /\ nodeStore'[n] = nodeStore[n]
                   /\ Emits(n, <<>>)
          /\ (nodeStore[n].status = "DISCONNECTED" /\ nodeStore'[n].status = "CONNECTED")
                => IsAcceptedReport(last', n)]_vars

\* a sweep has found the node DISCONNECTED by an earlier sweep
C4_Witness ==
    /\ IsSweep(last)
    /\ "n1" \in DOMAIN nodeStore
    /\ nodeStore["n1"].status = "DISCONNECTED"
    /\ now - nodeStore["n1"].lastSeen >= NODE_TIMEOUT_MS + 2 * SWEEP_INTERVAL_MS
    /\ Len(StatusEvents("n1")) = 2

\* C5: the step that accepts a report of a DISCONNECTED node leaves the node
\* CONNECTED, with the AI engine call in flight, and emits exactly one CONNECTED
\* event; no step emits a CONNECTED event for a node that is CONNECTED
C5_ReconnectEmitsOnce ==
    [][\A n \in DOMAIN nodeStore :
          /\ (IsAcceptedReport(last', n) /\ nodeStore[n].status = "DISCONNECTED")
                => /\ nodeStore'[n].status = "CONNECTED"
                   /\ nodeStore'[n].connection_state = "CONNECTED"
                   /\ \E call \in pending' \ pending : call.node_id = n
                   /\ Len(emitted'[n]) = Len(emitted[n]) + 1
                   /\ Emits(n, <<emitted'[n][Len(emitted'[n])]>>)
                   /\ IsStatusEvent(emitted'[n][Len(emitted'[n])])
                   /\ emitted'[n][Len(emitted'[n])].status = "CONNECTED"
          /\ nodeStore[n].status = "CONNECTED"
                => \A i \in (Len(emitted[n]) + 1)..Len(emitted'[n]) :
                      ~(IsStatusEvent(emitted'[n][i])
                        /\ emitted'[n][i].status = "CONNECTED")]_vars

\* a report of a DISCONNECTED node has been accepted while an earlier report of
\* the node was still in flight
C5_Witness ==
    /\ IsAcceptedReport(last, "n1")
    /\ last.existingNode
    /\ last.isNewOrReconnecting
    /\ Cardinality({call \in pending : call.node_id = "n1"}) >= 2

\* C6: the connection-status events of a node alternate CONNECTED, DISCONNECTED,
\* CONNECTED, ..., beginning with CONNECTED
C6_StatusEventsAlternate ==
    \A n \in NodeIds :
        \A i \in 1..Len(StatusEvents(n)) :
            StatusEvents(n)[i].status =
                IF i % 2 = 1 THEN "CONNECTED" ELSE "DISCONNECTED"

\* a node has connected, timed out, reconnected and timed out again
C6_Witness == Len(StatusEvents("n1")) = 4

\* C7: right after a sweep, a node is stored as DISCONNECTED iff the sweep time
\* minus its lastSeen is >= the timeout
C7_SweepMatchesTimeout ==
    IsSweep(last) =>
        \A n \in DOMAIN nodeStore :
            /\ nodeStore[n].connection_state = "DISCONNECTED"
                  <=> now - nodeStore[n].lastSeen >= NODE_TIMEOUT_MS
            /\ nodeStore[n].status = nodeStore[n].connection_state

\* a sweep has run exactly NODE_TIMEOUT_MS after the report of a node and has
\* marked the node
C7_Witness ==
    /\ IsSweep(last)
    /\ "n1" \in DOMAIN nodeStore
    /\ now - nodeStore["n1"].lastSeen = NODE_TIMEOUT_MS
    /\ nodeStore["n1"].connection_state = "DISCONNECTED"

\* C8: timeout + sweep interval after its last accepted report, a node is
\* DISCONNECTED and the DISCONNECTED event is out
C8_DisconnectedInTime ==
    \A n \in DOMAIN nodeStore :
        now - nodeStore[n].lastSeen >= NODE_TIMEOUT_MS + SWEEP_INTERVAL_MS
            => /\ nodeStore[n].status = "DISCONNECTED"
               /\ StatusEvents(n)[Len(StatusEvents(n))].status = "DISCONNECTED"

\* a node that reported between two sweeps has been marked by the first sweep
\* after its timeout, later than the timeout and within the sweep interval
C8_Witness ==
    /\ IsSweep(last)
    /\ "n1" \in DOMAIN nodeStore
    /\ nodeStore["n1"].status = "DISCONNECTED"
    /\ now - nodeStore["n1"].lastSeen > NODE_TIMEOUT_MS
    /\ now - nodeStore["n1"].lastSeen < NODE_TIMEOUT_MS + SWEEP_INTERVAL_MS

\* C9: agent_status = OFFLINE iff connection_state = DISCONNECTED, in the stored
\* record and in what getActiveNodes and getNodeData return
C9_OfflineIffDisconnected ==
    /\ \A n \in DOMAIN nodeStore :
          /\ nodeStore[n].agent_status = "OFFLINE"
                <=> nodeStore[n].connection_state = "DISCONNECTED"
          /\ getNodeData(nodeStore, n, now).agent_status = "OFFLINE"
                <=> getNodeData(nodeStore, n, now).connection_state = "DISCONNECTED"
    /\ \A node \in getActiveNodes(nodeStore, now) :
          node.agent_status = "OFFLINE" <=> node.connection_state = "DISCONNECTED"

\* C10: a report whose heartbeat timestamp is older than HEARTBEAT_STALE_MS
\* creates no record, refreshes no lastSeen and moves no node to CONNECTED,
\* the first report of a node included
C10_StaleHeartbeatNoRefresh ==
    [][(IsReport(last') /\ IsStale(last'.payload.heartbeat, now))
          => /\ DOMAIN nodeStore' = DOMAIN nodeStore
             /\ \A n \in DOMAIN nodeStore :
                   /\ nodeStore'[n].lastSeen = nodeStore[n].lastSeen
                   /\ nodeStore'[n].status = nodeStore[n].status
                   /\ nodeStore'[n].connection_state
                         = nodeStore[n].connection_state]_vars

(***************************************************************************)
(* Validation (ValidationSpec)                                             *)
(***************************************************************************)
\* check (a): node id present and a non-empty string
HasNodeId(payload) == payload.node_id # ""

\* check (b): metrics object present with numeric CPU and memory utilisation
HasNumericMetrics(payload) ==
    /\ ~IsAbsent(payload.metrics)
    /\ \A part \in {payload.metrics.cpu, payload.metrics.memory} :
          /\ ~IsAbsent(part)
          /\ DOMAIN part.usage_percent = {"num"}

\* check (c): both utilisations within [0,100]
InRange(payload) ==
    \A part \in {payload.metrics.cpu, payload.metrics.memory} :
        part.usage_percent.num \in 0..100

\* check (d): the metric timestamp, when present, not older than 60s at time t
NotOlderThanBound(payload, t) ==
    "timestamp" \in DOMAIN payload.metrics
        => t - payload.metrics.timestamp <= METRIC_STALE_MS

\* the earliest of the checks (a)..(d) that the payload fails, "" when none
FirstFailedCheck(payload, t) ==
    IF ~HasNodeId(payload) THEN "a"
    ELSE IF ~HasNumericMetrics(payload) THEN "b"
    ELSE IF ~InRange(payload) THEN "c"
    ELSE IF ~NotOlderThanBound(payload, t) THEN "d"
    ELSE ""

\* the check that a rejection reason names, "" for no validation error
CheckOfReason(error) ==
    IF error = "Missing or invalid node_id" THEN "a"
    ELSE IF error \in {"Missing or invalid metrics object",
                       "Invalid metrics.cpu structure",
                       "Invalid metrics.memory structure"} THEN "b"
    ELSE IF error \in {"CPU usage out of range (0-100)",
                       "Memory usage out of range (0-100)"} THEN "c"
    ELSE IF error = "Metrics timestamp too old (stale data rejected)" THEN "d"
    ELSE ""

\* C11: a payload is rejected by validation with the reason of the earliest of
\* the checks (a)..(d) it fails, and passes validation only when it fails none
C11_FirstFailureWins ==
    IsReport(last) =>
        CheckOfReason(last.error) = FirstFailedCheck(last.payload, now)

\* a payload that fails the checks (a), (c) and (d) at once has been rejected,
\* and one with both utilisations at the ends of the range and a timestamp
\* exactly 60s old has been accepted before
C11_Witness ==
    /\ IsReport(last)
    /\ ~HasNodeId(last.payload)
    /\ HasNumericMetrics(last.payload)
    /\ ~InRange(last.payload)
    /\ ~NotOlderThanBound(last.payload, now)
    /\ last.outcome = "rejected"
    /\ "n1" \in DOMAIN nodeStore
    /\ "timestamp" \in DOMAIN nodeStore["n1"].metrics
    /\ now - nodeStore["n1"].metrics.timestamp = METRIC_STALE_MS

\* C12: the step that processes a payload failing one of the checks (a)..(d)
\* changes neither nodeStore nor heartbeatTracker nor nodeStates nor the
\* incident timeline, starts no AI engine call, emits nothing, and ends with
\* an error that names a reason
C12_RejectionChangesNothing ==
    [][(IsReport(last') /\ FirstFailedCheck(last'.payload, now) # "")
          => /\ UNCHANGED <<nodeStore, heartbeatTracker, nodeStates,
                            incidentTimeline, pending, emitted>>
             /\ last'.outcome = "rejected"
             /\ CheckOfReason(last'.error) # ""]_vars

\* an out-of-range payload of a node that has a record, a risk level and an
\* incident on the timeline has been rejected
C12_Witness ==
    /\ IsReport(last)
    /\ last.payload.node_id = "n1"
    /\ FirstFailedCheck(last.payload, now) = "c"
    /\ "n1" \in DOMAIN nodeStore
    /\ "n1" \in DOMAIN nodeStates
    /\ Len(incidentTimeline) > 0
    /\ pending # {}

(***************************************************************************)
(* Incidents (FleetSpec)                                                   *)
(***************************************************************************)
IsSystemMetrics(e) == e.event = "system_metrics"

\* the risk levels observed for node n, in the order of the updateState calls:
\* each call follows the emit of the system_metrics event with the same aiResult
Observed(n) ==
    LET events == SelectSeq(emitted[n], IsSystemMetrics)
    IN  [i \in 1..Len(events) |-> events[i].system_health.risk_level]

\* the incidents of node n on the timeline, as from/to pairs
IncidentsOf(n) ==
    LET OfNode(incident) == incident.node_id = n
        incidents == SelectSeq(incidentTimeline, OfNode)
    IN  [i \in 1..Len(incidents) |-> <<incidents[i].from, incidents[i].to>>]

RECURSIVE Transitions(_, _)
\* the changes of level along the risk levels `risks`, the level before them `level`
Transitions(level, risks) ==
    IF risks = <<>> THEN <<>>
    ELSE IF risks[1] = level THEN Transitions(level, Tail(risks))
    ELSE <<(<<level, risks[1]>>)>> \o Transitions(risks[1], Tail(risks))

\* C13: the incidents of a node are exactly the changes of level along the risk
\* levels observed for it, beginning at NORMAL, in observation order, and the
\* stored level is the level observed last
C13_IncidentPerLevelChange ==
    \A n \in NodeIds :
        /\ IncidentsOf(n) = Transitions("NORMAL", Observed(n))
        /\ getNodeState(nodeStates, n) =
              IF Observed(n) = <<>> THEN "NORMAL" ELSE Observed(n)[Len(Observed(n))]

\* a node has been observed at the same level twice in a row between two
\* changes of level, while the other node has incidents of its own
C13_Witness ==
    /\ \E i \in 1..(Len(Observed("n1")) - 2) :
          /\ Observed("n1")[i] # "NORMAL"
          /\ Observed("n1")[i + 1] = Observed("n1")[i]
          /\ Observed("n1")[i + 2] # Observed("n1")[i]
    /\ Len(IncidentsOf("n1")) = 2
    /\ Len(IncidentsOf("n2")) > 0

(***************************************************************************)
(* The incident timeline (TimelineSpec)                                    *)
(***************************************************************************)
IsIncidentEvent(e) == e.event = "incident_event"

\* every incident ever appended, in the order of the appends: each append is
\* followed by the emit of the incident (n1 is the only node that reports)
EverAppended ==
    LET events == SelectSeq(emitted["n1"], IsIncidentEvent)
    IN  [i \in 1..Len(events) |-> events[i].incident]

\* the last n elements of seq, all of them when it has fewer
LastOf(seq, n) ==
    IF Len(seq) <= n THEN seq ELSE SubSeq(seq, Len(seq) - n + 1, Len(seq))

\* C14: the timeline never holds more than 50 incidents, and it holds the most
\* recent 50 (all of them while there are fewer) of the incidents ever appended,
\* in insertion order
C14_TimelineKeepsLast50 ==
    /\ Len(incidentTimeline) <= 50
    /\ incidentTimeline = LastOf(EverAppended, 50)

\* 51 incidents have been appended: 50 are left and the first one is gone
C14_Witness ==
    /\ Len(EverAppended) = 51
    /\ Len(incidentTimeline) = 50
    /\ incidentTimeline[1] = EverAppended[2]
    /\ incidentTimeline[1] # EverAppended[1]

\* C15: a step leaves the timeline as it is, or appends to it the incident that
\* updateState created, as created, at the tail, shifting out the head when
\* the timeline is full: no record on it is changed, none is given a new field,
\* and none changes place
C15_TimelineAppendOnly ==
    [][\/ incidentTimeline' = incidentTimeline
       \/ /\ last'.op = "resolved"
          /\ ~IsAbsent(last'.pushed)
          /\ incidentTimeline' \in {Append(incidentTimeline, last'.pushed),
                                    Tail(Append(incidentTimeline, last'.pushed))}]_vars

(***************************************************************************)
(* The AI engine call (Spec, FleetSpec)                                    *)
(***************************************************************************)
\* the reports whose results have been applied for node n, in the order of
\* their system_metrics events
AppliedReports(n) ==
    LET events == SelectSeq(emitted[n], IsSystemMetrics)
    IN  [i \in 1..Len(events) |-> events[i].reportId]

\* C16: the results of a node's reports are applied in the order in which the
\* reports arrived: the system_metrics events follow the arrival order, and
\* the stored aiResult is that of the latest report applied
C16_ResultsInArrivalOrder ==
    \A n \in NodeIds :
        /\ \A i \in 1..(Len(AppliedReports(n)) - 1) :
              AppliedReports(n)[i] < AppliedReports(n)[i + 1]
        /\ (n \in DOMAIN nodeStore /\ "aiResult" \in DOMAIN nodeStore[n])
              => nodeStore[n].aiResult.reportId
                    = AppliedReports(n)[Len(AppliedReports(n))]

IsSettled(step) == step.op \in {"resolved", "failed"}

\* C17: a failed AI engine call ends without an error for the caller, with a
\* system_metrics event for the report that carries the decision NO_ACTION
C17_FailureYieldsNoAction ==
    last.op = "failed" =>
        /\ last.error = ""
        /\ \E i \in 1..Len(emitted[last.node_id]) :
              LET e == emitted[last.node_id][i] IN
              /\ IsSystemMetrics(e)
              /\ e.reportId = last.reportId
              /\ "decision" \in DOMAIN e
              /\ e.decision = "NO_ACTION"

\* C18: the step in which an AI engine call settles, resolved or failed, leaves
\* the heartbeat trackers, the registry's members and every node's lastSeen,
\* connection state and heartbeat record as they are and emits no
\* connection-status event, so that they are what the accepting step made them
\* either way; a failed call also leaves every risk level and the timeline
C18_FailureKeepsLiveness ==
    [][IsSettled(last') =>
          /\ heartbeatTracker' = heartbeatTracker
          /\ DOMAIN nodeStore' = DOMAIN nodeStore
          /\ \A n \in DOMAIN nodeStore :
                /\ nodeStore'[n].lastSeen = nodeStore[n].lastSeen
                /\ nodeStore'[n].status = nodeStore[n].status
                /\ nodeStore'[n].connection_state = nodeStore[n].connection_state
                /\ nodeStore'[n].heartbeat = nodeStore[n].heartbeat
          /\ \A n \in NodeIds :
                SelectSeq(emitted'[n], IsStatusEvent) = SelectSeq(emitted[n], IsStatusEvent)
          /\ last'.op = "failed" =>
                /\ nodeStates' = nodeStates
                /\ incidentTimeline' = incidentTimeline]_vars

\* the AI engine call of a reconnecting report has failed, after an earlier
\* call of the node left a risk level and an incident
C18_Witness ==
    /\ last.op = "failed"
    /\ nodeStore[last.node_id].status = "CONNECTED"
    /\ nodeStore[last.node_id].reportId = last.reportId
    /\ Len(StatusEvents(last.node_id)) = 3
    /\ Len(incidentTimeline) > 0

\* the node that a step processes a report for, "" for the steps that do not
NodeOf(step) ==
    IF IsReport(step) THEN step.payload.node_id
    ELSE IF IsSettled(step) THEN step.node_id
    ELSE ""

\* node n's record, if any, with its heartbeat tracker and its risk level
StateOf(store, trackers, states, n) ==
    <<IF n \in DOMAIN store THEN store[n] ELSE Absent,
      IF n \in DOMAIN trackers THEN trackers[n] ELSE Absent,
      getNodeState(states, n)>>

\* C19: the steps that process a report of node A -- accepting it, rejecting
\* it, applying its AI engine result or failing in the AI engine call -- leave
\* the record, the heartbeat tracker and the risk level of every other node
C19_OtherNodesUntouched ==
    [][\A B \in NodeIds :
          (NodeOf(last') # "" /\ NodeOf(last') # B)
            => StateOf(nodeStore', heartbeatTracker', nodeStates', B)
                 = StateOf(nodeStore, heartbeatTracker, nodeStates, B)]_vars

\* a call of n1 has failed, after reports of n1 were rejected and one was
\* answered CRITICAL, while n2 has a record, an AI engine result and the risk
\* level WARNING
C19_Witness ==
    /\ last.op = "failed"
    /\ last.node_id = "n1"
    /\ Len(accepted["n1"]) < reportCount["n1"]
    /\ getNodeState(nodeStates, "n1") = "CRITICAL"
    /\ "n2" \in DOMAIN nodeStore
    /\ "aiResult" \in DOMAIN nodeStore["n2"]
    /\ getNodeState(nodeStates, "n2") = "WARNING"

\* C20: a node has a record exactly when a report of it has been accepted; the
\* step that creates the record is the one that accepts a report of the node,
\* and it creates it CONNECTED; no step removes a record
C20_RecordFromFirstAcceptedReport ==
    [][\A n \in NodeIds :
          /\ n \in DOMAIN nodeStore => n \in DOMAIN nodeStore'
          /\ n \in DOMAIN nodeStore' <=> accepted'[n] # <<>>
          /\ (n \notin DOMAIN nodeStore /\ n \in DOMAIN nodeStore')
                => /\ IsAcceptedReport(last', n)
                   /\ nodeStore'[n].status = "CONNECTED"
                   /\ nodeStore'[n].connection_state = "CONNECTED"]_vars

\* an AI engine call of a node has failed after the node had timed out and a
\* sweep had marked it, a report of the node having been rejected as well
C20_Witness ==
    /\ last.op = "failed"
    /\ "n1" \in DOMAIN nodeStore
    /\ nodeStore["n1"].status = "DISCONNECTED"
    /\ Len(accepted["n1"]) < reportCount["n1"]

(***************************************************************************)
(* The decision engine (DecisionSpec)                                      *)
(***************************************************************************)
\* node n has been evaluated
IsEvaluated(n) == ~IsAbsent(decision[n])

\* the window holds consecutive observations in the order of their arrival
InArrivalOrder(window) ==
    \A i \in 1..(Len(window) - 1) : window[i + 1].at = window[i].at + 1

\* the window of node n holds the most recent observations of n, WINDOW_CAPACITY
\* of them at most, the one of the latest evaluation the last
HoldsMostRecent(n) ==
    /\ Len(memory[n]) <= WINDOW_CAPACITY
    /\ InArrivalOrder(memory[n])
    /\ IsEvaluated(n) <=> memory[n] # <<>>
    /\ IsEvaluated(n) => decision[n].observation = memory[n][Len(memory[n])]
    /\ memory[n] # <<>>
          => memory[n][1].at = IF memory[n][Len(memory[n])].at > WINDOW_CAPACITY
                               THEN memory[n][Len(memory[n])].at - WINDOW_CAPACITY + 1
                               ELSE 1

\* C21: a window never holds more than WINDOW_CAPACITY observations; it holds
\* the most recent ones in the order of their arrival, so that past the capacity
\* the oldest is gone and the newest is there; no step clears a window or
\* shortens it, the sweep that marks the node DISCONNECTED leaves it alone, and
\* an evaluation takes out the oldest observation of a full window only
C21_WindowKeepsMostRecent ==
    [][\A n \in NodeIds :
          /\ HoldsMostRecent(n)'
          /\ Len(memory'[n]) >= Len(memory[n])
          /\ last'.op = "sweep" => memory'[n] = memory[n]
          /\ memory'[n] # memory[n]
                => /\ memory'[n][Len(memory'[n])].at = Len(memory[n]) + 1
                      \/ Len(memory[n]) = WINDOW_CAPACITY
                   /\ \A i \in 1..Len(memory[n]) :
                         (i > 1 \/ Len(memory[n]) < WINDOW_CAPACITY)
                            => \E j \in 1..Len(memory'[n]) : memory'[n][j] = memory[n][i]]_vars

\* n1 was marked DISCONNECTED by a sweep with its window one short of full;
\* after two more evaluations the window is full, the first observation is gone
\* and observation WINDOW_CAPACITY + 1 is the last
C21_Witness ==
    /\ \E i \in 1..Len(emitted["n1"]) :
          /\ IsStatusEvent(emitted["n1"][i])
          /\ emitted["n1"][i].status = "DISCONNECTED"
    /\ Len(memory["n1"]) = WINDOW_CAPACITY
    /\ memory["n1"][1].at = 2
    /\ memory["n1"][WINDOW_CAPACITY].at = WINDOW_CAPACITY + 1

\* C22: while the window of a node holds fewer than MinSamples observations,
\* the decision of its latest evaluation carries the INSUFFICIENT_DATA
\* indicator and is neither AUTO_HEAL nor PREDICT_FAILURE
C22_InsufficientDataBelowMinimum ==
    \A n \in NodeIds :
        (IsEvaluated(n) /\ Len(memory[n]) < MinSamples)
           => /\ decision[n].insufficient_data
              /\ decision[n].kind \notin {"AUTO_HEAL", "PREDICT_FAILURE"}

\* n1 was evaluated CRITICAL with an eligible safe action, a critical decline
\* and a failure projected within the horizon, no remediation in flight, on a
\* window below the minimum sample count
C22_Witness ==
    /\ IsEvaluated("n1")
    /\ Len(memory["n1"]) < MinSamples
    /\ decision["n1"].observation.risk_level = "CRITICAL"
    /\ decision["n1"].signals = FailureSignals("CRITICAL_DECLINE", TRUE)
    /\ ~decision["n1"].inFlight

\* the risk level of the observation before the current one of node n, if any
PreviousRisk(n) ==
    IF Len(memory[n]) > 1 THEN [str |-> memory[n][Len(memory[n]) - 1].risk_level]
    ELSE Absent

\* the rungs of the ladder that match the latest evaluation of node n, by rank
\* (1 is AUTO_HEAL); no rung that depends on history matches below the minimum
\* sample count
MatchingRungs(n) ==
    LET d == decision[n]
        risk == d.observation.risk_level
        trend == d.signals.healthTrend
        persists == Persistence(memory[n]) > PersistenceFloor
        enough == Len(memory[n]) >= MinSamples
    IN  {5}
        \cup (IF enough /\ risk = "CRITICAL" /\ d.signals.eligible /\ ~d.inFlight
              THEN {1} ELSE {})
        \cup (IF /\ enough /\ d.signals.withinHorizon
                 /\ trend = "CRITICAL_DECLINE" \/ (trend = "DEGRADING" /\ persists)
              THEN {2} ELSE {})
        \cup (IF \/ /\ ~IsAbsent(PreviousRisk(n))
                    /\ RiskRank(risk) > RiskRank(PreviousRisk(n).str)
                 \/ risk \in {"WARNING", "CRITICAL"} /\ persists
              THEN {3} ELSE {})
        \cup (IF /\ enough /\ ~IsAbsent(PreviousRisk(n))
                 /\ RiskRank(risk) < RiskRank(PreviousRisk(n).str)
                 /\ trend \in {"IMPROVING", "STABLE"}
              THEN {4} ELSE {})

\* the rank of a decision kind on the ladder, 0 for what is no decision kind
RungOf(kind) ==
    IF kind = "AUTO_HEAL" THEN 1
    ELSE IF kind = "PREDICT_FAILURE" THEN 2
    ELSE IF kind = "ESCALATE" THEN 3
    ELSE IF kind = "DE_ESCALATE" THEN 4
    ELSE IF kind = "NO_ACTION" THEN 5
    ELSE 0

\* C23: the decision of every evaluation is one of the five kinds, the one of
\* the first rung of the ladder AUTO_HEAL, PREDICT_FAILURE, ESCALATE,
\* DE_ESCALATE, NO_ACTION that matches; it is AUTO_HEAL only for a CRITICAL
\* observation with an eligible safe action and no remediation in flight
C23_FirstMatchingRung ==
    \A n \in NodeIds :
        IsEvaluated(n)
          => /\ decision[n].kind \in DecisionKinds
             /\ \A rung \in MatchingRungs(n) : RungOf(decision[n].kind) <= rung
             /\ RungOf(decision[n].kind) \in MatchingRungs(n)
             /\ decision[n].kind = "AUTO_HEAL"
                   => /\ decision[n].observation.risk_level = "CRITICAL"
                      /\ decision[n].signals.eligible
                      /\ ~decision[n].inFlight

\* the latest decision of n1 is AUTO_HEAL although the rungs of PREDICT_FAILURE
\* and of ESCALATE match as well
C23_Witness ==
    /\ IsEvaluated("n1")
    /\ decision["n1"].kind = "AUTO_HEAL"
    /\ {1, 2, 3} \subseteq MatchingRungs("n1")
    /\ last.op = "resolved"

(***************************************************************************)
(* Stale heartbeats and the tracker (HeartbeatSpec)                        *)
(***************************************************************************)
\* the step has rejected a report of node n for its stale heartbeat
IsStaleRejection(step, n) ==
    /\ IsReport(step)
    /\ step.payload.node_id = n
    /\ step.error = "Stale heartbeat rejected"

\* C24: a report that is rejected for its stale heartbeat timestamp leaves the
\* heartbeat tracker of its node as it was: neither lastSeq nor
\* missedHeartbeats changes
C24_StaleRejectionKeepsTracker ==
    [][\A n \in NodeIds :
          IsStaleRejection(last', n)
            => /\ heartbeatTracker'[n].lastSeq = heartbeatTracker[n].lastSeq
               /\ heartbeatTracker'[n].missedHeartbeats
                     = heartbeatTracker[n].missedHeartbeats]_vars

(***************************************************************************)
(* The emissions of one report (Spec)                                      *)
(***************************************************************************)
\* the events that the step has emitted for node n
NewEvents(n) == SubSeq(emitted'[n], Len(emitted[n]) + 1, Len(emitted'[n]))

\* a system_metrics event of report reportId has been emitted for node n
HasSystemMetricsOf(log, reportId) ==
    \E i \in 1..Len(log) : IsSystemMetrics(log[i]) /\ log[i].reportId = reportId

\* C25: the step that accepts a report emits the connection-status event, and
\* only for a node that is new or reconnecting, before any system_metrics event
\* of that report; the step that applies the result of the report emits the
\* system_metrics event and then the incident event, the latter exactly when
\* updateState has appended an incident, which is exactly when the risk level
\* has changed
C25_EmissionOrder ==
    [][\A n \in NodeIds :
          /\ IsAcceptedReport(last', n)
                => /\ emitted'[n] = emitted[n] \o NewEvents(n)
                   /\ Len(NewEvents(n)) = IF last'.isNewOrReconnecting THEN 1 ELSE 0
                   /\ last'.isNewOrReconnecting
                         <=> \/ n \notin DOMAIN nodeStore
                             \/ nodeStore[n].status = "DISCONNECTED"
                   /\ last'.isNewOrReconnecting
                         => /\ IsStatusEvent(NewEvents(n)[1])
                            /\ NewEvents(n)[1].status = "CONNECTED"
                   /\ ~HasSystemMetricsOf(emitted'[n], reportCount'[n])
          /\ (last'.op = "resolved" /\ last'.node_id = n)
                => LET appended == incidentTimeline' # incidentTimeline IN
                   /\ emitted'[n] = emitted[n] \o NewEvents(n)
                   /\ Len(NewEvents(n)) = IF appended THEN 2 ELSE 1
                   /\ IsSystemMetrics(NewEvents(n)[1])
                   /\ NewEvents(n)[1].reportId = last'.reportId
                   /\ appended
                         <=> NewEvents(n)[1].system_health.risk_level
                               # getNodeState(nodeStates, n)
                   /\ appended
                         => /\ IsIncidentEvent(NewEvents(n)[2])
                            /\ NewEvents(n)[2].incident
                                  = incidentTimeline'[Len(incidentTimeline')]]_vars

\* the result of a report of n1 has been applied with an incident, after n1 had
\* timed out and had come back with a later report
C25_Witness ==
    /\ last.op = "resolved"
    /\ last.node_id = "n1"
    /\ last.incident
    /\ \E i \in 1..Len(emitted["n1"]) :
          /\ IsStatusEvent(emitted["n1"][i])
          /\ emitted["n1"][i].status = "CONNECTED"
          /\ emitted["n1"][i].isReconnection
    /\ IsIncidentEvent(emitted["n1"][Len(emitted["n1"])])

(***************************************************************************)
(* Reading the timeline (IncidentsSpec)                                    *)
(***************************************************************************)
\* the places of the incidents of node n on the timeline
PlacesOf(timeline, n) == {i \in 1..Len(timeline) : timeline[i].node_id = n}

\* list holds the incidents of node n on the timeline, each once, in the order
\* of the timeline
IsListOfNode(list, timeline, n) ==
    /\ Len(list) = Cardinality(PlacesOf(timeline, n))
    /\ \A i \in PlacesOf(timeline, n) :
          list[Cardinality({j \in PlacesOf(timeline, n) : j <= i})] = timeline[i]

IsGetTimeline(step) == step.op = "getTimeline"

\* the query names a node
NamesNode(nodeId) == ~IsAbsent(nodeId) /\ nodeId.str \notin {"", "all"}

\* C26: getTimeline(nodeId) returns the incidents of the stored timeline whose
\* node_id is nodeId, all of them and nothing else, in timeline order;
\* getTimeline without a node id, or with "all", returns the whole timeline; the
\* stored timeline is the same after the call
C26_GetTimelineFilters ==
    [][IsGetTimeline(last')
          => /\ incidentTimeline' = incidentTimeline
             /\ IF NamesNode(last'.nodeId)
                THEN IsListOfNode(last'.timeline, incidentTimeline, last'.nodeId.str)
                ELSE last'.timeline = incidentTimeline]_vars

\* the incidents of n1 have been read from a timeline on which an incident of
\* n2 lies between incidents of n1
C26_Witness ==
    /\ IsGetTimeline(last)
    /\ last.nodeId = [str |-> "n1"]
    /\ \E i, j, k \in 1..Len(incidentTimeline) :
          /\ i < j /\ j < k
          /\ incidentTimeline[i].node_id = "n1"
          /\ incidentTimeline[j].node_id = "n2"
          /\ incidentTimeline[k].node_id = "n1"
    /\ Len(last.timeline) = Len(incidentTimeline) - 1

(***************************************************************************)
(* One timeline for all nodes (IncidentsSpec)                              *)
(***************************************************************************)
\* the step has applied the result of a report of node n: the only steps that
\* call updateState for n
IsUpdateStateFor(step, n) == step.op = "resolved" /\ step.node_id = n

\* C30: the list that getTimeline returns for a node A changes only in the
\* steps that call updateState for A: the calls of updateState for other nodes
\* leave it as it is and remove no incident of A
C30_TimelinePerNode ==
    [][\A A \in NodeIds :
          ~IsUpdateStateFor(last', A)
             => getTimeline(incidentTimeline', [str |-> A])
                  = getTimeline(incidentTimeline, [str |-> A])]_vars

(***************************************************************************)
(* Reads and connection-status events (Spec)                               *)
(***************************************************************************)
\* the connection states that getActiveNodes and getNodeData return for node n
\* at time t
ReadStates(store, n, t) ==
    {node.connection_state : node \in {a \in getActiveNodes(store, t) : a.node_id = n}}
        \cup {getNodeData(store, n, t).connection_state}

\* the state that the reads of node n agree on at time t
ReadState(store, n, t) == CHOOSE state \in ReadStates(store, n, t) : TRUE

\* the connection state carried by the latest connection-status event of node n
LastEventState(log) ==
    LET events == SelectSeq(log, IsStatusEvent)
    IN  events[Len(events)].connection_state

\* C27: what getActiveNodes and getNodeData return as the connection state of a
\* node is the state of the latest connection-status event emitted for it, and
\* where the reads go from DISCONNECTED to CONNECTED the step has emitted the
\* CONNECTED event, after a DISCONNECTED event
C27_ReadsMatchEvents ==
    [][\A n \in DOMAIN nodeStore :
          /\ ReadStates(nodeStore', n, now') = {LastEventState(emitted'[n])}
          /\ (/\ ReadState(nodeStore, n, now) = "DISCONNECTED"
              /\ ReadState(nodeStore', n, now') = "CONNECTED")
                => /\ Len(NewEvents(n)) = 1
                   /\ IsStatusEvent(NewEvents(n)[1])
                   /\ LastEventState(emitted[n]) = "DISCONNECTED"
                   /\ LastEventState(emitted'[n]) = "CONNECTED"]_vars

(***************************************************************************)
(* The analysis result on the record (Spec)                                *)
(***************************************************************************)
\* C28: the analysis result stored on the record of a node is the result of
\* the report that wrote the record, the one whose metrics the record holds
C28_ResultBelongsToRecord ==
    \A n \in DOMAIN nodeStore :
        "aiResult" \in DOMAIN nodeStore[n]
           => nodeStore[n].aiResult.reportId = nodeStore[n].reportId

(***************************************************************************)
(* The chain of a node's incidents (IncidentsSpec)                         *)
(***************************************************************************)
\* C29: every incident on the timeline changes the level (from # to); of two
\* incidents of a node that follow each other on the timeline the later one
\* begins at the level that the earlier one ends at; and the latest incident of
\* a node ends at the node's stored risk level
C29_IncidentsChain ==
    /\ \A i \in 1..Len(incidentTimeline) :
          incidentTimeline[i].from # incidentTimeline[i].to
    /\ \A n \in NodeIds :
          LET places == PlacesOf(incidentTimeline, n) IN
          /\ \A i, j \in places :
                (i < j /\ ~\E k \in places : i < k /\ k < j)
                   => incidentTimeline[i].to = incidentTimeline[j].from
          /\ \A i \in places :
                (~\E k \in places : i < k)
                   => incidentTimeline[i].to = getNodeState(nodeStates, n)

\* the timeline is full and has lost its first incident; on it lie an incident
\* of n2 and, after it, an incident of n1 that ends at WARNING
C29_Witness ==
    /\ Len(incidentTimeline) = MAX_INCIDENTS
    /\ incidentTimeline[1].from = "CRITICAL"
    /\ incidentTimeline[MAX_INCIDENTS - 1].node_id = "n2"
    /\ incidentTimeline[MAX_INCIDENTS].node_id = "n1"
    /\ incidentTimeline[MAX_INCIDENTS].to = "WARNING"
    /\ last.op = "resolved"

====
